---- MODULE Spec2Model ----
(***************************************************************************)
(* Model of source_match (TCOffsetFunctions.py): the greedy, one-to-one    *)
(* nearest-neighbour match of a reference catalog against a target catalog *)
(* and the mean / standard deviation of the per-pair offsets and ratios.   *)
(*                                                                         *)
(* Floating point values are modelled exactly.  A float is a pair <<n, d>> *)
(* with d >= 0 and gcd(n, d) = 1: d > 0 is the rational n/d, <<1, 0>> is   *)
(* +inf, <<-1, 0>> is -inf and <<0, 0>> is nan.  A square root is a triple *)
(* <<n, d, r>>: r = 1 is the rational n/d, r = 2 is sqrt(n/d) with n/d not *)
(* the square of a rational.  Rounding and signed zeros are not modelled.  *)
(* Arrays are functions over 0 .. n-1, as in the source.                   *)
(***************************************************************************)
EXTENDS Integers, Sequences, FiniteSets, TLC

\* ---------------------------------------------------------------- bounds
MaxRef == 2
MaxTarg == 2

\* ------------------------------------------------------ exact arithmetic
Abs(n) == IF n < 0 THEN -n ELSE n

Sign(n) == IF n < 0 THEN -1 ELSE IF n > 0 THEN 1 ELSE 0

RECURSIVE GCD(_, _)
GCD(a, b) == IF b = 0 THEN a ELSE GCD(b, a % b)

\* The float n/d in lowest terms; a zero denominator gives inf, -inf or nan.
Norm(n, d) ==
    IF d = 0 THEN <<Sign(n), 0>>
    ELSE LET s == Sign(d)
             g == GCD(Abs(n), Abs(d))
         IN  <<(s * Sign(n)) * (Abs(n) \div g), Abs(d) \div g>>

Rat(n) == <<n, 1>>

NaN == <<0, 0>>

IsNaN(a) == a[2] = 0 /\ a[1] = 0

IsInf(a) == a[2] = 0 /\ a[1] # 0

IsFinite(a) == a[2] > 0

Add(a, b) ==
    IF IsNaN(a) \/ IsNaN(b) THEN NaN
    ELSE IF IsInf(a) /\ IsInf(b) THEN (IF a[1] = b[1] THEN a ELSE NaN)
    ELSE IF IsInf(a) THEN a
    ELSE IF IsInf(b) THEN b
    ELSE LET g == GCD(a[2], b[2])
         IN  Norm(a[1] * (b[2] \div g) + b[1] * (a[2] \div g), a[2] * (b[2] \div g))

Neg(a) == <<-a[1], a[2]>>

Sub(a, b) == Add(a, Neg(b))

Mul(a, b) == Norm(a[1] * b[1], a[2] * b[2])

\* IEEE division as numpy performs it: x/0 is +-inf, 0/0 is nan (a warning,
\* not an exception).
Div(a, b) == Norm(a[1] * b[2], a[2] * b[1])

Less(a, b) ==
    IF IsNaN(a) \/ IsNaN(b) THEN FALSE
    ELSE IF IsInf(a) THEN a[1] < 0 /\ ~(IsInf(b) /\ b[1] < 0)
    ELSE IF IsInf(b) THEN b[1] > 0
    ELSE a[1] * b[2] < b[1] * a[2]

RECURSIVE ISqrtBetween(_, _, _)
ISqrtBetween(n, lo, hi) ==
    IF lo >= hi THEN lo
    ELSE LET mid == (lo + hi + 1) \div 2
         IN  IF mid * mid <= n THEN ISqrtBetween(n, mid, hi)
             ELSE ISqrtBetween(n, lo, mid - 1)

\* floor(sqrt(n)) for 0 <= n < 2^30
ISqrt(n) == ISqrtBetween(n, 0, IF n < 32767 THEN n ELSE 32767)

\* np.sqrt of a float: nan for a negative argument.
Sqrt(a) ==
    IF IsNaN(a) \/ a[1] < 0 THEN <<0, 0, 1>>
    ELSE IF IsInf(a) THEN <<1, 0, 1>>
    ELSE LET rn == ISqrt(a[1])
             rd == ISqrt(a[2])
         IN  IF rn * rn = a[1] /\ rd * rd = a[2] THEN <<rn, rd, 1>>
             ELSE <<a[1], a[2], 2>>

\* The square of a root value, a float.
Squared(s) == IF s[3] = 1 THEN Mul(<<s[1], s[2]>>, <<s[1], s[2]>>) ELSE <<s[1], s[2]>>

RootOf(a) == <<a[1], a[2], 1>>

RootSign(s) == Sign(s[1])

RootIsNaN(s) == s[1] = 0 /\ s[2] = 0

\* s < t on root values
RootLess(s, t) ==
    IF RootIsNaN(s) \/ RootIsNaN(t) THEN FALSE
    ELSE IF RootSign(s) < 0 /\ RootSign(t) >= 0 THEN TRUE
    ELSE IF RootSign(s) >= 0 /\ RootSign(t) < 0 THEN FALSE
    ELSE IF RootSign(s) >= 0 THEN Less(Squared(s), Squared(t))
    ELSE Less(Squared(t), Squared(s))

\* ------------------------------------------------------------- constants
\* (targ - ref) * 3600.0 turns degrees into arcseconds.
CoordScale == 3600

\* "Multiply by 1.5": FWHM is a diameter in pixels, the radius is in arcsec.
RadiusFactor == <<3, 2>>

\* matched_sources[:] = -1 and mindist = -1, match_ind = -1
NoMatch == -1

\* The slots of the [None, None, None, None] lists.
None == <<>>

\* ----------------------------------------------------------------- inputs
\* Catalogs are sequences over this pool of catalog rows.  The positions
\* (0,0), (1,1), (2,0) lie at distances 0, sqrt(2) and 2 of each other; the
\* peaks are 0, 1, 2; the FWHM products 0, 1, 4, 16 are perfect squares, so
\* the effective radii 0, 3/2, 3, 6 are rationals.
Row(x, y, peak, fwhm1, fwhm2) ==
    [Cen1 |-> x, Cen2 |-> y, Peak |-> peak, GCFWHM1 |-> fwhm1, GCFWHM2 |-> fwhm2]

SourceRecord ==
    { Row(0, 0, 1, 1, 4),
      Row(1, 1, 2, 1, 1),
      Row(2, 0, 1, 1, 4),
      Row(0, 0, 0, 1, 4),
      Row(1, 1, 1, 0, 4),
      Row(0, 0, 2, 4, 4) }

Catalogs(max) == UNION {[0 .. n - 1 -> SourceRecord] : n \in 0 .. max}

MinPeakVals == {0, 1}

MaxRadVals == {3}

MaxSepVals == {2}

\* ------------------------------------------------------------------ state
VARIABLES
    ref_data,          \* apfits.getdata(ref_name, 0)
    targ_data,         \* apfits.getdata(cat_name, 0)
    minpeak, maxrad, maxsep,
    matched_sources,   \* reference index -> matched target index or -1
    targ_matchcheck,   \* target index -> 1 when claimed, else 0
    n_done,            \* passes of the matching loop completed so far
    n_matched,
    match_count,
    matched_xoff, matched_yoff, matched_peakr, matched_rr,
    off, err,          \* the two returned lists
    pc

vars == <<ref_data, targ_data, minpeak, maxrad, maxsep, matched_sources,
          targ_matchcheck, n_done, n_matched, match_count, matched_xoff,
          matched_yoff, matched_peakr, matched_rr, off, err, pc>>

inputs == <<ref_data, targ_data, minpeak, maxrad, maxsep>>

ref_nsources == Cardinality(DOMAIN ref_data)

targ_nsources == Cardinality(DOMAIN targ_data)

\* np.sqrt(np.multiply(fwhm1, fwhm2)) * 1.5
EffRadius(rec) ==
    LET s == Sqrt(Rat(rec.GCFWHM1 * rec.GCFWHM2))
    IN  Mul(<<s[1], s[2]>>, RadiusFactor)

ref_rvals(k) == EffRadius(ref_data[k])

targ_rvals(k) == EffRadius(targ_data[k])

\* ssd.cdist(ref_coords, targ_coords, metric='euclidean')
Dist(r, t) ==
    Sqrt(Rat((r.Cen1 - t.Cen1) * (r.Cen1 - t.Cen1) + (r.Cen2 - t.Cen2) * (r.Cen2 - t.Cen2)))

Init ==
    /\ ref_data \in Catalogs(MaxRef)
    /\ targ_data \in Catalogs(MaxTarg)
    /\ minpeak \in MinPeakVals
    /\ maxrad \in MaxRadVals
    /\ maxsep \in MaxSepVals
    /\ matched_sources = [k \in DOMAIN ref_data |-> NoMatch]
    /\ targ_matchcheck = [k \in DOMAIN targ_data |-> 0]
    /\ n_done = 0
    /\ n_matched = 0
    /\ match_count = 0
    /\ matched_xoff = <<>>
    /\ matched_yoff = <<>>
    /\ matched_peakr = <<>>
    /\ matched_rr = <<>>
    /\ off = <<>>
    /\ err = <<>>
    /\ pc = "match"

\* ---------------------------------------------------------- matching loop
\* Variant: the brightest reference sources are visited first.
ref_by_peak ==
    CHOOSE f \in [0 .. ref_nsources - 1 -> 0 .. ref_nsources - 1] :
        /\ \A a, b \in DOMAIN f : a # b => f[a] # f[b]
        /\ \A a, b \in DOMAIN f :
              a < b => \/ ref_data[f[a]].Peak > ref_data[f[b]].Peak
                       \/ ref_data[f[a]].Peak = ref_data[f[b]].Peak /\ f[a] < f[b]

\* "for i in range(ref_nsources)": the reference index of each pass.
ref_range == [k \in 0 .. ref_nsources - 1 |-> k]

\* The reference index of the pass the loop is about to make.
i == ref_range[n_done]

\* Variant: the radius test is dropped.
RadiusTooLargeNever(k) == FALSE

\* "if ref_rvals[i] > maxrad: continue"
RadiusTooLarge(k) == Less(Rat(maxrad), ref_rvals(k))

\* Variant: "if ref_peakvals[i] <= minpeak: continue"
PeakTooLowOrEqual(k) == ~Less(Rat(minpeak), Rat(ref_data[k].Peak))

\* "if ref_peakvals[i] < minpeak: continue"
PeakTooLow(k) == Less(Rat(ref_data[k].Peak), Rat(minpeak))

\* Variant: the radius and peak tests are applied to the target sources too.
AlreadyMatchedOrFiltered(j) ==
    \/ targ_matchcheck[j] = 1
    \/ Less(Rat(maxrad), targ_rvals(j))
    \/ Less(Rat(targ_data[j].Peak), Rat(minpeak))

\* Variant: a claimed target is offered again.
AlreadyMatchedNever(j) == FALSE

\* "if targ_matchcheck[j] == 1: continue"
AlreadyMatched(j) == targ_matchcheck[j] = 1

\* Variant: "if dist <= maxsep"
WithinSepInclusive(dist) == ~RootLess(RootOf(Rat(maxsep)), dist)

\* "if dist < maxsep"
WithinSep(dist) == RootLess(dist, RootOf(Rat(maxsep)))

\* "if mindist == -1"
IsFirst(mindist) == mindist = RootOf(Rat(NoMatch))

\* Variant: "if dist <= mindist"
IsCloserOrEqual(dist, mindist) == ~RootLess(mindist, dist)

\* "if dist < mindist"
IsCloser(dist, mindist) == RootLess(dist, mindist)

\* The loop over the target catalog from index j on, for reference source k:
\* the pair <<mindist, match_ind>> it ends with.
RECURSIVE TargLoop(_, _, _, _)
TargLoop(k, j, mindist, match_ind) ==
    IF j >= targ_nsources THEN <<mindist, match_ind>>
    ELSE IF AlreadyMatched(j) THEN TargLoop(k, j + 1, mindist, match_ind)
    ELSE LET dist == Dist(ref_data[k], targ_data[j])
         IN  IF WithinSep(dist)
             THEN LET md1 == IF IsFirst(mindist) THEN dist ELSE mindist
                      mi1 == IF IsFirst(mindist) THEN j ELSE match_ind
                  IN  IF IsCloser(dist, md1)
                      THEN TargLoop(k, j + 1, dist, j)
                      ELSE TargLoop(k, j + 1, md1, mi1)
             ELSE TargLoop(k, j + 1, mindist, match_ind)

\* match_ind when the loop over the target catalog has ended
MatchInd(k) == TargLoop(k, 0, RootOf(Rat(NoMatch)), NoMatch)[2]

aggvars == <<n_matched, match_count, matched_xoff, matched_yoff, matched_peakr,
             matched_rr, off, err>>

\* One pass of the loop body that ends in one of the two "continue"s.
SkipSource ==
    /\ pc = "match"
    /\ n_done < ref_nsources
    /\ RadiusTooLarge(i) \/ PeakTooLow(i)
    /\ n_done' = n_done + 1
    /\ UNCHANGED <<inputs, matched_sources, targ_matchcheck, aggvars, pc>>

\* Variant: targ_matchcheck is set up anew in every pass of the loop.
MatchSourceResetCheck ==
    /\ pc = "match"
    /\ n_done < ref_nsources
    /\ ~RadiusTooLarge(i)
    /\ ~PeakTooLow(i)
    /\ LET match_ind == MatchInd(i)
       IN  IF match_ind >= 0
           THEN /\ targ_matchcheck' = [j \in DOMAIN targ_data |-> IF j = match_ind THEN 1 ELSE 0]
                /\ matched_sources' = [matched_sources EXCEPT ![i] = match_ind]
           ELSE UNCHANGED <<targ_matchcheck, matched_sources>>
    /\ n_done' = n_done + 1
    /\ UNCHANGED <<inputs, aggvars, pc>>

\* Variant: "targ_matchcheck[match_ind] = 1" is left out.
MatchSourceNoMark ==
    /\ pc = "match"
    /\ n_done < ref_nsources
    /\ ~RadiusTooLarge(i)
    /\ ~PeakTooLow(i)
    /\ LET match_ind == MatchInd(i)
       IN  IF match_ind >= 0
           THEN /\ matched_sources' = [matched_sources EXCEPT ![i] = match_ind]
                /\ UNCHANGED targ_matchcheck
           ELSE UNCHANGED <<targ_matchcheck, matched_sources>>
    /\ n_done' = n_done + 1
    /\ UNCHANGED <<inputs, aggvars, pc>>

\* One pass of the loop body for a source that passes both tests.
MatchSource ==
    /\ pc = "match"
    /\ n_done < ref_nsources
    /\ ~RadiusTooLarge(i)
    /\ ~PeakTooLow(i)
    /\ LET match_ind == MatchInd(i)
       IN  IF match_ind >= 0
           THEN /\ targ_matchcheck' = [targ_matchcheck EXCEPT ![match_ind] = 1]
                /\ matched_sources' = [matched_sources EXCEPT ![i] = match_ind]
           ELSE UNCHANGED <<targ_matchcheck, matched_sources>>
    /\ n_done' = n_done + 1
    /\ UNCHANGED <<inputs, aggvars, pc>>

\* ------------------------------------------------------------ aggregation
\* The reference indices with matched_sources[k] != -1 among lo .. hi - 1, in
\* increasing order: the order in which the second loop visits them.
RECURSIVE MatchedFrom(_, _)
MatchedFrom(m, lo) ==
    IF lo >= Cardinality(DOMAIN m) THEN <<>>
    ELSE IF m[lo] = NoMatch THEN MatchedFrom(m, lo + 1)
    ELSE <<lo>> \o MatchedFrom(m, lo + 1)

\* Variant: len(np.where(matched_sources != 0)[0])
CountNonZero(m) == Cardinality({k \in DOMAIN m : m[k] # 0})

\* len(np.where(matched_sources != -1)[0])
CountOf(m) == Cardinality({k \in DOMAIN m : m[k] # NoMatch})

\* (targ_posxvals[targ_match] - ref_posxvals[i]) * 3600.0
XOff(k) == Mul(Sub(Rat(targ_data[matched_sources[k]].Cen1), Rat(ref_data[k].Cen1)), Rat(CoordScale))

\* (targ_posyvals[targ_match] - ref_posyvals[i]) * 3600.0
YOff(k) == Mul(Sub(Rat(targ_data[matched_sources[k]].Cen2), Rat(ref_data[k].Cen2)), Rat(CoordScale))

\* Variant: ref_peakvals[i] / targ_peakvals[targ_match]
PeakRInverse(k) == Div(Rat(ref_data[k].Peak), Rat(targ_data[matched_sources[k]].Peak))

\* targ_peakvals[targ_match] / ref_peakvals[i]
PeakR(k) == Div(Rat(targ_data[matched_sources[k]].Peak), Rat(ref_data[k].Peak))

\* targ_rvals[targ_match] / ref_rvals[i]
RadR(k) == Div(targ_rvals(matched_sources[k]), ref_rvals(k))

RECURSIVE SumSeq(_)
SumSeq(s) == IF s = <<>> THEN Rat(0) ELSE Add(Head(s), SumSeq(Tail(s)))

\* np.average of a non-empty array
Average(s) == Div(SumSeq(s), Rat(Len(s)))

\* Variant: np.std(..., ddof=1), the sample standard deviation
StdSample(s) ==
    LET mu == Average(s)
        dev == [k \in 1 .. Len(s) |-> Mul(Sub(s[k], mu), Sub(s[k], mu))]
    IN  Sqrt(Div(SumSeq(dev), Rat(Len(s) - 1)))

\* np.std of a non-empty array: sqrt(mean(abs(x - x.mean())**2)), ddof = 0
Std(s) ==
    LET mu == Average(s)
        dev == [k \in 1 .. Len(s) |-> Mul(Sub(s[k], mu), Sub(s[k], mu))]
    IN  Sqrt(Average(dev))

\* "Find out the number of matched sources."
CountMatched ==
    /\ pc = "match"
    /\ n_done = ref_nsources
    /\ n_matched' = CountOf(matched_sources)
    /\ pc' = "aggregate"
    /\ UNCHANGED <<inputs, matched_sources, targ_matchcheck, n_done, match_count,
                   matched_xoff, matched_yoff, matched_peakr, matched_rr, off, err>>

\* The "if n_matched > 0" branch: the second loop, the averages, the
\* deviations and the return.
Aggregate ==
    /\ pc = "aggregate"
    /\ n_matched > 0
    /\ LET good == MatchedFrom(matched_sources, 0)
           xoff == [k \in 1 .. Len(good) |-> XOff(good[k])]
           yoff == [k \in 1 .. Len(good) |-> YOff(good[k])]
           peakr == [k \in 1 .. Len(good) |-> PeakR(good[k])]
           rr == [k \in 1 .. Len(good) |-> RadR(good[k])]
       IN  /\ match_count' = Len(good)
           /\ matched_xoff' = xoff
           /\ matched_yoff' = yoff
           /\ matched_peakr' = peakr
           /\ matched_rr' = rr
           /\ off' = <<Average(xoff), Average(yoff), Average(peakr), Average(rr)>>
           /\ err' = <<Std(xoff), Std(yoff), Std(peakr), Std(rr)>>
    /\ pc' = "done"
    /\ UNCHANGED <<inputs, matched_sources, targ_matchcheck, n_done, n_matched>>

\* The "if n_matched == 0" branch.
ReturnNone ==
    /\ pc = "aggregate"
    /\ n_matched = 0
    /\ off' = <<None, None, None, None>>
    /\ err' = <<None, None, None, None>>
    /\ pc' = "done"
    /\ UNCHANGED <<inputs, matched_sources, targ_matchcheck, n_done, n_matched,
                   match_count, matched_xoff, matched_yoff, matched_peakr, matched_rr>>

\* How the call has ended: source_match has two return statements and raises
\* nothing.
Outcome == IF pc = "done" THEN "returned" ELSE "running"

Next == SkipSource \/ MatchSource \/ CountMatched \/ Aggregate \/ ReturnNone

Spec == Init /\ [][Next]_vars

\* ================================================================= claims
\* The properties below are stated on the integer catalog values, not with
\* the operators of the model.

Refs == DOMAIN ref_data

Targs == DOMAIN targ_data

IsMatched(k) == matched_sources[k] # NoMatch

\* The square of the planar distance between reference k and target j.
SqDist(k, j) ==
    (ref_data[k].Cen1 - targ_data[j].Cen1) * (ref_data[k].Cen1 - targ_data[j].Cen1)
  + (ref_data[k].Cen2 - targ_data[j].Cen2) * (ref_data[k].Cen2 - targ_data[j].Cen2)

\* distance < max_separation
Near(k, j) == maxsep > 0 /\ SqDist(k, j) < maxsep * maxsep

\* effective_radius > max_radius, for sqrt(fwhm1 * fwhm2) * 3/2 and max_radius >= 0
TooLarge(k) == 9 * ref_data[k].GCFWHM1 * ref_data[k].GCFWHM2 > 4 * maxrad * maxrad

\* peak < min_peak
TooFaint(k) == ref_data[k].Peak < minpeak

\* A reference source that passes both filters (both bounds inclusive).
Eligible(k) == ~TooLarge(k) /\ ~TooFaint(k)

\* C1: at every moment of the matching loop and in the final result, no
\* target index is recorded as the match of two different reference indices.
C1_Uniqueness ==
    \A k1, k2 \in Refs :
        (k1 # k2 /\ IsMatched(k1) /\ IsMatched(k2))
            => matched_sources[k1] # matched_sources[k2]

\* Two references are matched, and the later one lies nearer to the target
\* the earlier one claimed than to the target it got.
C1_Witness ==
    \E k1, k2 \in Refs :
        /\ k1 < k2
        /\ IsMatched(k1)
        /\ IsMatched(k2)
        /\ Near(k2, matched_sources[k1])
        /\ SqDist(k2, matched_sources[k1]) < SqDist(k2, matched_sources[k2])

\* C2: a reference source whose effective radius is above max_radius or
\* whose peak is below min_peak is never a key of the match result.
C2_FilteredNeverMatched ==
    \A k \in Refs : (TooLarge(k) \/ TooFaint(k)) => matched_sources[k] = NoMatch

\* The call has ended with a too large and a too faint reference unmatched
\* although an unclaimed target lies within max_separation of each.
C2_Witness ==
    /\ pc = "done"
    /\ \E k \in Refs : /\ TooLarge(k) /\ ~TooFaint(k)
                       /\ \E j \in Targs : Near(k, j) /\ targ_matchcheck[j] = 0
    /\ \E k \in Refs : /\ TooFaint(k) /\ ~TooLarge(k)
                       /\ \E j \in Targs : Near(k, j) /\ targ_matchcheck[j] = 0

\* C3: every matched pair lies strictly within max_separation; a reference
\* whose only candidate target is at exactly max_separation stays unmatched.
C3_StrictSeparation ==
    /\ \A k \in Refs : IsMatched(k) => Near(k, matched_sources[k])
    /\ \A k \in Refs :
          (targ_nsources = 1 /\ SqDist(k, 0) = maxsep * maxsep) => ~IsMatched(k)

\* The call has ended; an eligible reference at exactly max_separation of the
\* only target is unmatched, and another reference is matched to that target
\* from a non-zero distance.
C3_Witness ==
    /\ pc = "done"
    /\ targ_nsources = 1
    /\ \E k \in Refs : Eligible(k) /\ SqDist(k, 0) = maxsep * maxsep /\ ~IsMatched(k)
    /\ \E k \in Refs : IsMatched(k) /\ SqDist(k, 0) > 0

\* C4: the target a reference is matched to is, among the targets unclaimed
\* at that moment and strictly within max_separation, one at the smallest
\* distance, and among those at that distance the one of lowest index.
C4_NearestUnclaimed ==
    [][\A k \in Refs :
          (matched_sources[k] = NoMatch /\ matched_sources'[k] # NoMatch) =>
              LET j == matched_sources'[k]
              IN  /\ targ_matchcheck[j] = 0
                  /\ Near(k, j)
                  /\ \A j2 \in Targs :
                        (targ_matchcheck[j2] = 0 /\ Near(k, j2)) =>
                            \/ SqDist(k, j) < SqDist(k, j2)
                            \/ SqDist(k, j) = SqDist(k, j2) /\ j <= j2]_vars

\* A reference is matched to a target although a target of lower index,
\* never claimed, lies within max_separation too, farther away.
C4_Witness ==
    /\ pc = "done"
    /\ \E k \in Refs : \E j2 \in Targs :
          /\ IsMatched(k)
          /\ j2 < matched_sources[k]
          /\ targ_matchcheck[j2] = 0
          /\ Near(k, j2)
          /\ SqDist(k, matched_sources[k]) < SqDist(k, j2)

C6_EligibleMatchedWhenPossible ==
    [][\A k \in Refs :
          ( /\ pc = "match"
            /\ n_done = k
            /\ n_done' = k + 1
            /\ Eligible(k)
            /\ \E j \in Targs : targ_matchcheck[j] = 0 /\ Near(k, j) )
              => matched_sources'[k] # NoMatch]_vars

\* The call has ended; a reference exactly at both inclusive bounds is
\* matched, and an eligible reference is unmatched with a target in reach.
C6_Witness ==
    /\ pc = "done"
    /\ \E k \in Refs :
          /\ 9 * ref_data[k].GCFWHM1 * ref_data[k].GCFWHM2 = 4 * maxrad * maxrad
          /\ ref_data[k].Peak = minpeak
          /\ IsMatched(k)
    /\ \E k \in Refs : Eligible(k) /\ ~IsMatched(k) /\ \E j \in Targs : Near(k, j)

\* The matched pairs of the result and their number N.
Pairs == {k \in Refs : IsMatched(k)}

NPairs == Cardinality(Pairs)

Slots == 1 .. 4

\* C7: a call with zero matched pairs returns, without failing, the result
\* whose eight slots are all unset; a returned result has all eight slots
\* unset exactly when N = 0 and otherwise none of them unset.
C7_EmptyResult ==
    pc = "done" =>
        /\ Outcome = "returned"
        /\ Len(off) = 4
        /\ Len(err) = 4
        /\ NPairs = 0 => \A s \in Slots : off[s] = None /\ err[s] = None
        /\ NPairs > 0 => \A s \in Slots : off[s] # None /\ err[s] # None

\* The call has ended with the empty result although both catalogs have
\* rows and a target lies within max_separation of a (filtered) reference.
C7_Witness ==
    /\ pc = "done"
    /\ NPairs = 0
    /\ off = <<None, None, None, None>>
    /\ err = <<None, None, None, None>>
    /\ \E k \in Refs : \E j \in Targs : Near(k, j)

\* Sums and products of an integer-valued function over a finite set.
RECURSIVE SumF(_, _)
SumF(f, S) ==
    IF S = {} THEN 0
    ELSE LET x == CHOOSE x \in S : TRUE IN f[x] + SumF(f, S \ {x})

RECURSIVE ProdF(_, _)
ProdF(f, S) ==
    IF S = {} THEN 1
    ELSE LET x == CHOOSE x \in S : TRUE IN f[x] * ProdF(f, S \ {x})

\* The root of a perfect square.
Root(n) == CHOOSE r \in 0 .. n : r * r = n

\* The per-pair quantities as integer fractions num[k] / den[k], for the
\* pair of reference k and its target: offsets in arcseconds (target minus
\* reference), ratios target over reference (the factor 3/2 of the two
\* effective radii cancels).
XNum == [k \in Pairs |-> (targ_data[matched_sources[k]].Cen1 - ref_data[k].Cen1) * 3600]

YNum == [k \in Pairs |-> (targ_data[matched_sources[k]].Cen2 - ref_data[k].Cen2) * 3600]

One == [k \in Pairs |-> 1]

PeakNum == [k \in Pairs |-> targ_data[matched_sources[k]].Peak]

PeakDen == [k \in Pairs |-> ref_data[k].Peak]

RadNum ==
    [k \in Pairs |->
        Root(targ_data[matched_sources[k]].GCFWHM1 * targ_data[matched_sources[k]].GCFWHM2)]

RadDen == [k \in Pairs |-> Root(ref_data[k].GCFWHM1 * ref_data[k].GCFWHM2)]

NoZeroDen(den) == \A k \in Pairs : den[k] # 0

\* num[k] / den[k] brought to the common denominator ProdF(den, Pairs)
Scaled(num, den) == [k \in Pairs |-> num[k] * ProdF(den, Pairs \ {k})]

\* q is the arithmetic mean of the fractions num[k] / den[k], k in Pairs.
\* With a zero denominator the quotient is a float infinity or nan and so is
\* the mean: nan when a 0/0 or infinities of both signs occur.
IsMeanOf(q, num, den) ==
    IF NoZeroDen(den)
    THEN /\ q[2] > 0
         /\ q[1] * NPairs * ProdF(den, Pairs) = q[2] * SumF(Scaled(num, den), Pairs)
    ELSE LET zero == {k \in Pairs : den[k] = 0}
         IN  IF \/ \E k \in zero : num[k] = 0
                \/ \E k1, k2 \in zero : num[k1] < 0 /\ num[k2] > 0
             THEN q = <<0, 0>>
             ELSE q[2] = 0 /\ \A k \in zero : q[1] * num[k] > 0

\* C8: with N >= 1 matched pairs the values are the means, over exactly the
\* N pairs, of (target x - reference x) * 3600, (target y - reference y) *
\* 3600, target peak / reference peak and target radius / reference radius.
C8_MeanValues ==
    (pc = "done" /\ NPairs >= 1) =>
        /\ match_count = NPairs
        /\ IsMeanOf(off[1], XNum, One)
        /\ IsMeanOf(off[2], YNum, One)
        /\ IsMeanOf(off[3], PeakNum, PeakDen)
        /\ IsMeanOf(off[4], RadNum, RadDen)

\* Two pairs with different offsets and ratios, no zero denominator, and
\* means that tell target-minus-reference from the reverse.
C8_Witness ==
    /\ pc = "done"
    /\ NPairs = 2
    /\ NoZeroDen(PeakDen)
    /\ NoZeroDen(RadDen)
    /\ \E k1, k2 \in Pairs :
          /\ XNum[k1] # XNum[k2]
          /\ PeakNum[k1] * PeakDen[k2] # PeakNum[k2] * PeakDen[k1]
          /\ RadNum[k1] * RadDen[k2] # RadNum[k2] * RadDen[k1]
    /\ off[1][1] # 0
    /\ off[2][1] # 0
    /\ off[3] \notin {<<1, 1>>, <<0, 1>>}
    /\ off[4] \notin {<<1, 1>>, <<0, 1>>}

\* The square of a returned deviation <<n, d, r>>, as a fraction <<num, den>>.
SquareOf(e) == IF e[3] = 1 THEN <<e[1] * e[1], e[2] * e[2]>> ELSE <<e[1], e[2]>>

SquaresOf(f) == [k \in Pairs |-> f[k] * f[k]]

\* e is the population standard deviation of the fractions num[k] / den[k],
\* k in Pairs: e >= 0 and e^2 = (N * sum(x^2) - sum(x)^2) / N^2.  With a zero
\* denominator the sequence holds an infinity or a nan and the deviation is
\* nan.
IsPopStdOf(e, num, den) ==
    IF NoZeroDen(den)
    THEN LET X == Scaled(num, den)
             B == ProdF(den, Pairs)
             sq == SquareOf(e)
         IN  /\ e[1] >= 0
             /\ e[2] > 0
             /\ sq[1] * NPairs * NPairs * B * B
                   = sq[2] * (NPairs * SumF(SquaresOf(X), Pairs) - SumF(X, Pairs) * SumF(X, Pairs))
    ELSE e = <<0, 0, 1>>

C9_ErrorsArePopulationStd ==
    (pc = "done" /\ NPairs >= 1) =>
        /\ IsPopStdOf(err[1], XNum, One)
        /\ IsPopStdOf(err[2], YNum, One)
        /\ IsPopStdOf(err[3], PeakNum, PeakDen)
        /\ IsPopStdOf(err[4], RadNum, RadDen)

C9_SinglePair ==
    (pc = "done" /\ NPairs = 1) =>
        /\ \A s \in Slots : err[s] = <<0, 1, 1>>
        /\ \A k \in Pairs :
              /\ off[1] = <<XNum[k], 1>>
              /\ off[2] = <<YNum[k], 1>>
              /\ off[3][1] * PeakDen[k] = off[3][2] * PeakNum[k]
              /\ off[4][1] * RadDen[k] = off[4][2] * RadNum[k]

\* C9: the errors are the population standard deviations (divide by N) of
\* the four per-pair sequences, and with exactly one matched pair all four
\* errors are 0 and the values are that pair's own offsets and ratios.
C9_PopulationStd == C9_ErrorsArePopulationStd /\ C9_SinglePair

\* C10: when a matched reference source has a peak of exactly zero or an
\* effective radius of exactly zero, the call ends in InvalidCatalogError;
\* a returned result holds no non-finite value.
C10_ZeroDenominatorRejected ==
    pc = "done" =>
        /\ (\E k \in Pairs : PeakDen[k] = 0 \/ RadDen[k] = 0)
              => Outcome = "InvalidCatalogError"
        /\ (Outcome = "returned" /\ NPairs >= 1)
              => \A s \in Slots : off[s][2] > 0 /\ err[s][2] > 0

\* C11: a call with an empty reference or target catalog is rejected with
\* InvalidCatalogError before any matching work: no pass of the matching
\* loop is made and no result, numeric or empty, is returned.
C11_EmptyCatalogRejected ==
    (ref_nsources = 0 \/ targ_nsources = 0) =>
        /\ n_done = 0
        /\ pc = "done" => Outcome = "InvalidCatalogError"

\* C13: an unclaimed target below min_peak or above max_radius is matched
\* to an eligible reference when it is, at that reference's turn, its
\* nearest unclaimed target within max_separation.
TargTooLarge(j) == 9 * targ_data[j].GCFWHM1 * targ_data[j].GCFWHM2 > 4 * maxrad * maxrad

TargTooFaint(j) == targ_data[j].Peak < minpeak

C13_NoTargetFilter ==
    [][\A k \in Refs : \A j \in Targs :
          ( /\ pc = "match"
            /\ n_done = k
            /\ n_done' = k + 1
            /\ Eligible(k)
            /\ TargTooLarge(j) \/ TargTooFaint(j)
            /\ targ_matchcheck[j] = 0
            /\ Near(k, j)
            /\ \A j2 \in Targs \ {j} :
                  (targ_matchcheck[j2] = 0 /\ Near(k, j2)) =>
                      \/ SqDist(k, j) < SqDist(k, j2)
                      \/ SqDist(k, j) = SqDist(k, j2) /\ j < j2 )
              => matched_sources'[k] = j]_vars

\* The call has ended; a reference is matched to a target that is too
\* large, another to a target that is too faint.
C13_Witness ==
    /\ pc = "done"
    /\ \E k \in Pairs : TargTooLarge(matched_sources[k]) /\ ~TargTooFaint(matched_sources[k])
    /\ \E k \in Pairs : TargTooFaint(matched_sources[k]) /\ ~TargTooLarge(matched_sources[k])

\* C14: a recorded match is never changed or removed, a claimed target is
\* never un-claimed, and a reference left unmatched by its pass is never
\* matched later.
C14_Irrevocable ==
    [][ /\ \A k \in Refs : IsMatched(k) => matched_sources'[k] = matched_sources[k]
        /\ \A j \in Targs : targ_matchcheck[j] = 1 => targ_matchcheck'[j] = 1
        /\ \A k \in Refs : (k < n_done /\ ~IsMatched(k)) => matched_sources'[k] = NoMatch ]_vars

\* The call has ended; an earlier reference kept its target although a later
\* eligible reference lies nearer to it, and the later one got another
\* target; so the earlier match survived a later claim.
C14_Witness ==
    /\ pc = "done"
    /\ \E k1, k2 \in Pairs :
          /\ k1 < k2
          /\ Eligible(k2)
          /\ SqDist(k2, matched_sources[k1]) < SqDist(k1, matched_sources[k1])
          /\ targ_matchcheck[matched_sources[k1]] = 1
          /\ targ_matchcheck[matched_sources[k2]] = 1

\* C15: no target is matched more than once, and of two eligible reference
\* sources that compete for the same single target the brighter one is the
\* one matched: the fainter one is not.
C15_BrightestPriority ==
    pc = "done" =>
        /\ \A k1, k2 \in Pairs : k1 # k2 => matched_sources[k1] # matched_sources[k2]
        /\ \A k1, k2 \in Refs :
              ( /\ targ_nsources = 1
                /\ Eligible(k1) /\ Near(k1, 0)
                /\ Eligible(k2) /\ Near(k2, 0)
                /\ ref_data[k1].Peak < ref_data[k2].Peak ) => ~IsMatched(k1)

\* C16: a target is marked claimed exactly when exactly one reference is
\* matched to it, so as many targets are claimed as references are matched;
\* after the aggregation match_count equals n_matched and each per-pair
\* array holds n_matched entries.
Claimed == {j \in Targs : targ_matchcheck[j] = 1}

C16_Bookkeeping ==
    /\ \A j \in Targs : targ_matchcheck[j] \in {0, 1}
    /\ \A j \in Targs :
          targ_matchcheck[j] = 1 <=> Cardinality({k \in Refs : matched_sources[k] = j}) = 1
    /\ Cardinality(Claimed) = NPairs
    /\ pc \in {"aggregate", "done"} => n_matched = NPairs
    /\ (pc = "done" /\ n_matched > 0) =>
          /\ match_count = n_matched
          /\ Len(matched_xoff) = n_matched
          /\ Len(matched_yoff) = n_matched
          /\ Len(matched_peakr) = n_matched
          /\ Len(matched_rr) = n_matched

\* The call has ended with one pair out of two references and two targets:
\* one target claimed, one not, and one slot written.
C16_Witness ==
    /\ pc = "done"
    /\ ref_nsources = 2
    /\ targ_nsources = 2
    /\ NPairs = 1
    /\ Cardinality(Claimed) = 1
    /\ match_count = 1
    /\ \E k \in Refs : Eligible(k) /\ ~IsMatched(k)

====
